---- MODULE Spec2Model ----
(***************************************************************************)
(* Decision control plane: the AI advisory layer (AIAnalyzer) and the      *)
(* decision combiner.                                                      *)
(*                                                                         *)
(* Numbers: confidences and thresholds are held in hundredths, so 0.7 is   *)
(* 70 and the closed interval [0,1] is 0..100.  A JavaScript value that    *)
(* may be undefined is a sequence of length 0 (undefined) or 1 (<<v>>).    *)
(***************************************************************************)
EXTENDS Integers, Sequences, FiniteSets, TLC

(* ------------------------------------------------------------------ *)
(* Bounds                                                             *)
(* ------------------------------------------------------------------ *)

\* longest configured provider list
MaxProviders == 2

(* ------------------------------------------------------------------ *)
(* Value domains                                                      *)
(* ------------------------------------------------------------------ *)

RuleOutcomes == {"SAFE_ALLOW", "SAFE_DENY", "GREY_ZONE"}

Recommendations == {"ALLOW", "DENY", "REVIEW"}

FinalDecisions == {"ALLOW", "DENY", "REVIEW"}

DecisionSources ==
    {"RULE", "RULE_ABSOLUTE", "AI_RECOMMENDED", "AI_FLAGGED_REVIEW",
     "AI_UNAVAILABLE", "AI_UNCERTAIN"}

\* provider entries a configuration may list; "openai" is a name callProvider
\* does not know
ProviderPool ==
    { [name |-> "gemini", model |-> "gemini-pro"],
      [name |-> "gemini", model |-> "gemini-flash"],
      [name |-> "claude", model |-> "claude-3"],
      [name |-> "openai", model |-> "gpt-4o"] }

RECURSIVE SeqsUpTo(_, _)
SeqsUpTo(S, n) ==
    IF n = 0 THEN { <<>> }
    ELSE LET shorter == SeqsUpTo(S, n - 1)
         IN  shorter \cup { Append(s, x) : s \in shorter, x \in S }

\* config.enabled as written in the configuration
ConfigEnabledValues == {"true", "false", "undefined"}

\* config.confidenceThreshold as written in the configuration
ConfigThresholdValues == { <<>>, <<0>>, <<70>>, <<100>> }

Configs ==
    [enabled : ConfigEnabledValues,
     providers : SeqsUpTo(ProviderPool, MaxProviders),
     confidenceThreshold : ConfigThresholdValues]

\* confidence values an insight can carry
InsightConfidences == {0, 40, 50, 70, 92, 100}

(* ------------------------------------------------------------------ *)
(* JavaScript helpers                                                 *)
(* ------------------------------------------------------------------ *)

\* a || d for an optional number: undefined and 0 are falsy
OrDefault(opt, d) == IF opt = <<>> \/ opt[1] = 0 THEN d ELSE opt[1]

\* a >= b where a may be undefined (undefined >= b is false)
GreaterOrEqual(opt, b) == opt # <<>> /\ opt[1] >= b

Min(a, b) == IF a < b THEN a ELSE b

Max(a, b) == IF a > b THEN a ELSE b

(* ------------------------------------------------------------------ *)
(* AIAnalyzer.constructor                                             *)
(* ------------------------------------------------------------------ *)

DefaultConfidenceThreshold == 70

\* mutant: the advisor is on unless it is switched off explicitly
constructorEnabledByDefault(config) ==
    [enabled |-> config.enabled # "false",
     providers |-> config.providers,
     confidenceThreshold |->
         OrDefault(config.confidenceThreshold, DefaultConfidenceThreshold)]

\* mutant: only a missing threshold gets the default, 0 is kept
constructorKeepsZero(config) ==
    [enabled |-> config.enabled = "true",
     providers |-> config.providers,
     confidenceThreshold |->
         IF config.confidenceThreshold = <<>>
         THEN DefaultConfidenceThreshold ELSE config.confidenceThreshold[1]]

constructor(config) ==
    [enabled |-> config.enabled = "true",
     providers |-> config.providers,
     confidenceThreshold |->
         OrDefault(config.confidenceThreshold, DefaultConfidenceThreshold)]

(* ------------------------------------------------------------------ *)
(* What the network can answer to one axios.post                      *)
(* ------------------------------------------------------------------ *)

\* raw confidence member of a decoded reply: absent, a string, or a number
\* (in hundredths; -50 and 150 are out of range)
RawConfidences ==
    { [type |-> "undefined", val |-> 0], [type |-> "string", val |-> 0] }
    \cup [type : {"number"}, val : {-50, 0, 40, 70, 92, 100, 150}]

\* raw recommendation member: absent, or a string ("MAYBE" is not a verdict)
RawRecommendations == { <<>>, <<"ALLOW">>, <<"DENY">>, <<"REVIEW">>, <<"MAYBE">> }

\* reply texts: not JSON at all, the JSON literal null, a JSON scalar, or a
\* JSON object with the members the prompt asks for
\* (risk_factors and mitigating_factors: absent, or <<list>>)
RawFactorLists == { <<>>, << <<"velocity">> >> }

RawTexts ==
    [json : {"notjson", "null", "scalar"}, recommendation : { <<>> },
     confidence : { [type |-> "undefined", val |-> 0] }, reasoning : { <<>> },
     risk_factors : { <<>> }, mitigating_factors : { <<>> }]
    \cup
    [json : {"object"}, recommendation : RawRecommendations,
     confidence : RawConfidences, reasoning : { <<>>, <<"because">> },
     risk_factors : { <<>> }, mitigating_factors : { <<>> }]
    \cup
    [json : {"object"}, recommendation : { <<"ALLOW">> },
     confidence : { [type |-> "number", val |-> 92] },
     reasoning : { <<"because">> },
     risk_factors : RawFactorLists, mitigating_factors : RawFactorLists]

\* outcome of one axios.post: the promise rejects (timeout, transport error)
\* or resolves with a response whose text sits in one of the two wire shapes;
\* text = <<>> stands for no text or the empty string
NetOutcomes ==
    [kind : {"timeout", "transport"}, shape : {"gemini"},
     blockReason : {FALSE}, text : { <<>> }]
    \cup
    [kind : {"response"}, shape : {"gemini", "claude"}, blockReason : BOOLEAN,
     text : { <<>> } \cup { <<r>> : r \in RawTexts }]

(* ------------------------------------------------------------------ *)
(* AIAnalyzer.extractContent / callProvider                           *)
(* ------------------------------------------------------------------ *)

\* mutant: a request is built for any provider name
KnownProviderNamesAny == { p.name : p \in ProviderPool }

\* the provider names callProvider knows how to build a request for
KnownProviderNames == {"gemini", "claude"}

\* <<text>> or <<>> (null)
extractContent(providerName, response) ==
    IF providerName = "gemini"
    THEN IF response.shape = "gemini" THEN response.text ELSE <<>>
    ELSE IF providerName = "claude"
    THEN IF response.shape = "claude" THEN response.text ELSE <<>>
    ELSE <<>>

Throw(message) == [threw |-> TRUE, message |-> message, content |-> <<>>]

Return(content) == [threw |-> FALSE, message |-> "", content |-> content]

\* mutant: the empty-reply check is missing, null content is returned
callProviderNoEmptyCheck(provider, net) ==
    IF provider.name \notin KnownProviderNames
    THEN Throw("Unknown provider")
    ELSE IF net.kind = "timeout" THEN Throw("timeout exceeded")
    ELSE IF net.kind = "transport" THEN Throw("Network Error")
    ELSE IF provider.name = "gemini" /\ net.blockReason
    THEN Throw("GEMINI_BLOCKED")
    ELSE Return(extractContent(provider.name, net))

\* the call to one provider, given what the network answers
callProvider(provider, net) ==
    IF provider.name \notin KnownProviderNames
    THEN Throw("Unknown provider")
    ELSE IF net.kind = "timeout" THEN Throw("timeout exceeded")
    ELSE IF net.kind = "transport" THEN Throw("Network Error")
    ELSE IF provider.name = "gemini" /\ net.blockReason
    THEN Throw("GEMINI_BLOCKED")
    ELSE LET content == extractContent(provider.name, net)
         IN  IF content = <<>>
             THEN Throw(IF provider.name = "gemini"
                        THEN "GEMINI_EMPTY_RESPONSE" ELSE "EMPTY_AI_RESPONSE")
             ELSE Return(content)

(* ------------------------------------------------------------------ *)
(* AIAnalyzer.parseResponse                                           *)
(* ------------------------------------------------------------------ *)

InvalidResponse ==
    [recommendation |-> "REVIEW", confidence |-> 0,
     reasoning |-> "Invalid AI response",
     riskFactors |-> <<>>, mitigatingFactors |-> <<>>]

\* mutant: a numeric confidence is stored as it came
parseResponseNoClamp(content) ==
    IF content = <<>> THEN InvalidResponse
    ELSE LET raw == content[1] IN
    IF raw.json \in {"notjson", "null"} THEN InvalidResponse
    ELSE
      [recommendation |->
           IF raw.recommendation # <<>>
              /\ raw.recommendation[1] \in Recommendations
           THEN raw.recommendation[1] ELSE "REVIEW",
       confidence |->
           IF raw.confidence.type = "number"
           THEN raw.confidence.val ELSE 50,
       reasoning |->
           IF raw.reasoning # <<>> THEN raw.reasoning[1] ELSE "",
       riskFactors |->
           IF raw.risk_factors # <<>> THEN raw.risk_factors[1] ELSE <<>>,
       mitigatingFactors |->
           IF raw.mitigating_factors # <<>>
           THEN raw.mitigating_factors[1] ELSE <<>>]

\* mutant: any recommendation string the reply carries is kept
parseResponseAnyRecommendation(content) ==
    IF content = <<>> THEN InvalidResponse
    ELSE LET raw == content[1] IN
    IF raw.json \in {"notjson", "null"} THEN InvalidResponse
    ELSE
      [recommendation |->
           IF raw.recommendation # <<>>
           THEN raw.recommendation[1] ELSE "REVIEW",
       confidence |->
           IF raw.confidence.type = "number"
           THEN Max(0, Min(100, raw.confidence.val)) ELSE 50,
       reasoning |->
           IF raw.reasoning # <<>> THEN raw.reasoning[1] ELSE "",
       riskFactors |->
           IF raw.risk_factors # <<>> THEN raw.risk_factors[1] ELSE <<>>,
       mitigatingFactors |->
           IF raw.mitigating_factors # <<>>
           THEN raw.mitigating_factors[1] ELSE <<>>]

\* content is <<raw>>, or <<>> for a null that has no replace method; the
\* json member of raw says how the text decodes once the code fences are
\* stripped
parseResponse(content) ==
    IF content = <<>> THEN InvalidResponse
    ELSE LET raw == content[1] IN
    IF raw.json \in {"notjson", "null"} THEN InvalidResponse
    ELSE
      [recommendation |->
           IF raw.recommendation # <<>>
              /\ raw.recommendation[1] \in Recommendations
           THEN raw.recommendation[1] ELSE "REVIEW",
       confidence |->
           IF raw.confidence.type = "number"
           THEN Max(0, Min(100, raw.confidence.val)) ELSE 50,
       reasoning |->
           IF raw.reasoning # <<>> THEN raw.reasoning[1] ELSE "",
       riskFactors |->
           IF raw.risk_factors # <<>> THEN raw.risk_factors[1] ELSE <<>>,
       mitigatingFactors |->
           IF raw.mitigating_factors # <<>>
           THEN raw.mitigating_factors[1] ELSE <<>>]

(* ------------------------------------------------------------------ *)
(* AIInsight values                                                   *)
(* ------------------------------------------------------------------ *)

\* members an insight does not have are "" (strings) or <<>> (numbers and
\* lists, which are <<v>> when there); present = FALSE is the null /
\* undefined insight
\* (analyzed, provider, model, meetsConfidenceThreshold, recommendation,
\* confidence, reasoning, reason)
Insight(an, prov, mod, meets, rec, conf, reasoning, reason) ==
    [present |-> TRUE, analyzed |-> an, provider |-> prov,
     model |-> mod, meetsConfidenceThreshold |-> meets,
     recommendation |-> rec, confidence |-> conf,
     reasoning |-> reasoning, reason |-> reason,
     riskFactors |-> <<>>, mitigatingFactors |-> <<>>]

NullInsight ==
    [Insight(FALSE, "", "", FALSE, "", <<>>, "", "") EXCEPT !.present = FALSE]

\* analyze's result when the advisor is disabled
DisabledInsight == Insight(FALSE, "", "", FALSE, "", <<>>, "", "")

\* analyze's result when the provider loop ran out
AllProvidersFailedInsight ==
    Insight(FALSE, "", "", FALSE, "", <<>>, "", "ALL_PROVIDERS_FAILED")

\* mutant: the insight is labelled with the head of the provider list
SuccessInsightFirstConfigured(this, provider, parsed) ==
    [Insight(TRUE, this.providers[1].name, this.providers[1].model,
             parsed.confidence >= this.confidenceThreshold,
             parsed.recommendation, <<parsed.confidence>>, parsed.reasoning, "")
     EXCEPT !.riskFactors = <<parsed.riskFactors>>,
            !.mitigatingFactors = <<parsed.mitigatingFactors>>]

\* mutant: the threshold flag is set on every reply
SuccessInsightAlwaysMeets(this, provider, parsed) ==
    [Insight(TRUE, provider.name, provider.model, TRUE,
             parsed.recommendation, <<parsed.confidence>>, parsed.reasoning, "")
     EXCEPT !.riskFactors = <<parsed.riskFactors>>,
            !.mitigatingFactors = <<parsed.mitigatingFactors>>]

\* analyze's result when a provider answered
SuccessInsight(this, provider, parsed) ==
    [Insight(TRUE, provider.name, provider.model,
             parsed.confidence >= this.confidenceThreshold,
             parsed.recommendation, <<parsed.confidence>>, parsed.reasoning, "")
     EXCEPT !.riskFactors = <<parsed.riskFactors>>,
            !.mitigatingFactors = <<parsed.mitigatingFactors>>]

\* every insight a caller may hand to combineDecision
AnyInsights ==
    { NullInsight, DisabledInsight, AllProvidersFailedInsight }
    \cup
    { Insight(TRUE, "gemini", "gemini-pro", m, r, <<c>>, "because", "") :
        m \in BOOLEAN, r \in Recommendations, c \in InsightConfidences }

(* ------------------------------------------------------------------ *)
(* AIAnalyzer.combineDecision                                         *)
(* ------------------------------------------------------------------ *)

Decision(final, source, confidence) ==
    [finalDecision |-> final, source |-> source, confidence |-> confidence]

NoDecision == Decision("", "", <<>>)

\* aiInsight?.analyzed
IsAnalyzed(aiInsight) == aiInsight.present /\ aiInsight.analyzed

\* mutant: the flag needs the confidence to exceed the threshold strictly
safeAllowStrict(this, aiInsight) ==
    IF IsAnalyzed(aiInsight)
       /\ aiInsight.recommendation = "DENY"
       /\ aiInsight.confidence # <<>>
       /\ aiInsight.confidence[1] > this.confidenceThreshold
    THEN Decision("REVIEW", "AI_FLAGGED_REVIEW", <<>>)
    ELSE Decision("ALLOW", "RULE", <<>>)

\* mutant: the earlier draft's source tag for a flagged allow
safeAllowOverrideTag(this, aiInsight) ==
    IF IsAnalyzed(aiInsight)
       /\ aiInsight.recommendation = "DENY"
       /\ GreaterOrEqual(aiInsight.confidence, this.confidenceThreshold)
    THEN Decision("REVIEW", "AI_OVERRIDE_TO_REVIEW", <<>>)
    ELSE Decision("ALLOW", "RULE", <<>>)

\* mutant: the flagged review passes the advisor's confidence on
safeAllowCarriesConfidence(this, aiInsight) ==
    IF IsAnalyzed(aiInsight)
       /\ aiInsight.recommendation = "DENY"
       /\ GreaterOrEqual(aiInsight.confidence, this.confidenceThreshold)
    THEN Decision("REVIEW", "AI_FLAGGED_REVIEW", aiInsight.confidence)
    ELSE Decision("ALLOW", "RULE", <<>>)

\* the SAFE_ALLOW branch
safeAllow(this, aiInsight) ==
    IF IsAnalyzed(aiInsight)
       /\ aiInsight.recommendation = "DENY"
       /\ GreaterOrEqual(aiInsight.confidence, this.confidenceThreshold)
    THEN Decision("REVIEW", "AI_FLAGGED_REVIEW", <<>>)
    ELSE Decision("ALLOW", "RULE", <<>>)

\* mutant: a missing insight is reported as an uncertain one
greyZoneUnavailableAsUncertain(aiInsight) ==
    IF IsAnalyzed(aiInsight) /\ aiInsight.meetsConfidenceThreshold
    THEN Decision(aiInsight.recommendation, "AI_RECOMMENDED",
                  aiInsight.confidence)
    ELSE Decision("REVIEW", "AI_UNCERTAIN", <<>>)

\* mutant: the recommended decision drops the insight's confidence
greyZoneNoConfidence(aiInsight) ==
    IF ~IsAnalyzed(aiInsight)
    THEN Decision("REVIEW", "AI_UNAVAILABLE", <<>>)
    ELSE IF aiInsight.meetsConfidenceThreshold
    THEN Decision(aiInsight.recommendation, "AI_RECOMMENDED", <<>>)
    ELSE Decision("REVIEW", "AI_UNCERTAIN", <<>>)

\* mutant: a low-confidence DENY is still passed through
greyZoneLowConfidenceDeny(aiInsight) ==
    IF ~IsAnalyzed(aiInsight)
    THEN Decision("REVIEW", "AI_UNAVAILABLE", <<>>)
    ELSE IF aiInsight.meetsConfidenceThreshold
            \/ aiInsight.recommendation = "DENY"
    THEN Decision(aiInsight.recommendation, "AI_RECOMMENDED",
                  aiInsight.confidence)
    ELSE Decision("REVIEW", "AI_UNCERTAIN", <<>>)

\* the branch for any outcome that is neither SAFE_DENY nor SAFE_ALLOW
greyZone(aiInsight) ==
    IF ~IsAnalyzed(aiInsight)
    THEN Decision("REVIEW", "AI_UNAVAILABLE", <<>>)
    ELSE IF aiInsight.meetsConfidenceThreshold
    THEN Decision(aiInsight.recommendation, "AI_RECOMMENDED",
                  aiInsight.confidence)
    ELSE Decision("REVIEW", "AI_UNCERTAIN", <<>>)

\* mutant: a confident ALLOW from the advisor lifts a SAFE_DENY
combineDecisionDenyOverridable(this, ruleOutcome, aiInsight) ==
    IF ruleOutcome = "SAFE_DENY"
       /\ ~(IsAnalyzed(aiInsight) /\ aiInsight.recommendation = "ALLOW"
            /\ aiInsight.meetsConfidenceThreshold)
    THEN Decision("DENY", "RULE_ABSOLUTE", <<>>)
    ELSE IF ruleOutcome = "SAFE_ALLOW" THEN safeAllow(this, aiInsight)
    ELSE greyZone(aiInsight)

combineDecision(this, ruleOutcome, aiInsight) ==
    IF ruleOutcome = "SAFE_DENY"
    THEN Decision("DENY", "RULE_ABSOLUTE", <<>>)
    ELSE IF ruleOutcome = "SAFE_ALLOW" THEN safeAllow(this, aiInsight)
    ELSE greyZone(aiInsight)

(* ------------------------------------------------------------------ *)
(* RuleEngine: values, conditions, rules                              *)
(* ------------------------------------------------------------------ *)

\* longest rule set
MaxRules == 2

\* a JSON value of the request: a number or a string
Num(n) == [t |-> "num", n |-> n, s |-> ""]

Str(x) == [t |-> "str", n |-> 0, s |-> x]

FieldPaths == {"signals.risk_score", "request.type"}

\* a request: each field path is absent (<<>>) or carries <<value>>
Inputs ==
    { [p \in FieldPaths |->
          IF p = "signals.risk_score" THEN score ELSE type] :
        score \in { <<>>, <<Num(10)>>, <<Num(95)>>, <<Str("high")>> },
        type \in { <<>>, <<Str("payment")>> } }

NoInput == [p \in FieldPaths |-> <<>>]

Operators ==
    {"eq", "neq", "gt", "gte", "lt", "lte", "in", "nin", "exists", "regex"}

Condition(field, op, operands) ==
    [field |-> field, op |-> op, operands |-> operands]

\* the patterns that compile, each with the strings it matches
RegexTable == { <<"^pay", "payment">>, <<"^9", "95">> }

ValidPatterns == { pair[1] : pair \in RegexTable }

\* the string form of a field value
StringForm(v) == IF v.t = "str" THEN v.s ELSE ToString(v.n)

\* unknown operator, or a pattern that does not compile
Malformed(c) ==
    \/ c.op \notin Operators
    \/ c.op = "regex" /\ c.operands[1].s \notin ValidPatterns

\* one well-formed condition against the request
Holds(c, request) ==
    LET field == request[c.field]
        operand == c.operands[1]
        numeric == field # <<>> /\ field[1].t = "num" /\ operand.t = "num"
    IN  CASE c.op = "eq" -> field = <<operand>>
          [] c.op = "neq" -> field # <<operand>>
          [] c.op = "gt" -> numeric /\ field[1].n > operand.n
          [] c.op = "gte" -> numeric /\ field[1].n >= operand.n
          [] c.op = "lt" -> numeric /\ field[1].n < operand.n
          [] c.op = "lte" -> numeric /\ field[1].n <= operand.n
          [] c.op = "in" ->
                 field # <<>>
                 /\ \E k \in 1..Len(c.operands) : c.operands[k] = field[1]
          [] c.op = "nin" ->
                 ~(field # <<>>
                   /\ \E k \in 1..Len(c.operands) : c.operands[k] = field[1])
          [] c.op = "exists" -> field # <<>>
          [] c.op = "regex" ->
                 field # <<>>
                 /\ <<operand.s, StringForm(field[1])>> \in RegexTable

Rule(id, priority, conditions, outcome) ==
    [id |-> id, priority |-> priority, conditions |-> conditions,
     outcome |-> outcome]

\* the rules a configuration may list
RulePool ==
    { Rule("DENY_001", 1,
           << Condition("signals.risk_score", "gt", <<Num(90)>>) >>,
           "SAFE_DENY"),
      Rule("ALLOW_001", 2,
           << Condition("signals.risk_score", "lt", <<Num(20)>>),
              Condition("request.type", "neq", <<Str("refund")>>) >>,
           "SAFE_ALLOW"),
      Rule("ALLOW_002", 1,
           << Condition("request.type", "exists", <<Num(0)>>),
              Condition("signals.risk_score", "gte", <<Num(95)>>) >>,
           "SAFE_ALLOW"),
      Rule("DENY_002", 2,
           << Condition("request.type", "in",
                        <<Str("payment"), Str("transfer")>>),
              Condition("signals.risk_score", "eq", <<Str("high")>>) >>,
           "SAFE_DENY"),
      Rule("ALLOW_003", 2,
           << Condition("request.type", "regex", <<Str("^pay")>>),
              Condition("signals.risk_score", "lte", <<Num(10)>>),
              Condition("signals.risk_score", "nin", <<Num(95)>>) >>,
           "SAFE_ALLOW"),
      Rule("BAD_OP", 1,
           << Condition("signals.risk_score", "between", <<Num(0)>>) >>,
           "SAFE_DENY"),
      Rule("BAD_RE", 1,
           << Condition("request.type", "regex", <<Str("(")>>) >>,
           "SAFE_ALLOW") }

\* rule sets: lists of up to n rules with distinct ids
RuleSets(n) ==
    { rs \in SeqsUpTo(RulePool, n) :
        \A i, j \in 1..Len(rs) : i # j => rs[i].id # rs[j].id }

(* ------------------------------------------------------------------ *)
(* RuleEngine.evaluate                                                *)
(* ------------------------------------------------------------------ *)

\* a rule matches when every condition is well formed and holds
RuleMatches(rule, request) ==
    \A k \in 1..Len(rule.conditions) :
        /\ ~Malformed(rule.conditions[k])
        /\ Holds(rule.conditions[k], request)

RECURSIVE InsertBeforeEqual(_, _)
\* mutant: r goes in front of the rules that have its own priority
InsertBeforeEqual(sorted, r) ==
    IF sorted = <<>> THEN <<r>>
    ELSE IF Head(sorted).priority < r.priority
    THEN <<Head(sorted)>> \o InsertBeforeEqual(Tail(sorted), r)
    ELSE <<r>> \o sorted

RECURSIVE InsertByPriority(_, _)
\* r goes behind every rule of the sorted list whose priority is <= its own
InsertByPriority(sorted, r) ==
    IF sorted = <<>> THEN <<r>>
    ELSE IF Head(sorted).priority <= r.priority
    THEN <<Head(sorted)>> \o InsertByPriority(Tail(sorted), r)
    ELSE <<r>> \o sorted

RECURSIVE priorityOrder(_)
\* ascending priority, ties in configuration order
priorityOrder(ruleList) ==
    IF ruleList = <<>> THEN <<>>
    ELSE InsertByPriority(priorityOrder(SubSeq(ruleList, 1, Len(ruleList) - 1)),
                          ruleList[Len(ruleList)])

EvaluationStep(rule, matched) ==
    [ruleId |-> rule.id, matched |-> matched,
     reason |-> IF matched THEN "all conditions met"
                ELSE IF \E k \in 1..Len(rule.conditions) :
                            Malformed(rule.conditions[k])
                THEN "malformed condition" ELSE "conditions not met"]

RuleResult(outcome, matchedRule, evaluationPath) ==
    [outcome |-> outcome, matchedRule |-> matchedRule,
     evaluationPath |-> evaluationPath]

NoRuleResult == RuleResult("", <<>>, <<>>)

RECURSIVE scanRulesNoTraceOfWinner(_, _, _)
\* mutant: the winning rule is returned without its own step on the path
scanRulesNoTraceOfWinner(ordered, request, path) ==
    IF ordered = <<>> THEN RuleResult("GREY_ZONE", <<>>, path)
    ELSE LET rule == Head(ordered)
             matched == RuleMatches(rule, request)
         IN  IF matched
             THEN RuleResult(rule.outcome, <<rule>>, path)
             ELSE scanRulesNoTraceOfWinner(
                      Tail(ordered), request,
                      Append(path, EvaluationStep(rule, matched)))

RECURSIVE scanRulesStopAtMalformed(_, _, _)
\* mutant: a malformed condition ends the scan, no later rule is tried
scanRulesStopAtMalformed(ordered, request, path) ==
    IF ordered = <<>> THEN RuleResult("GREY_ZONE", <<>>, path)
    ELSE LET rule == Head(ordered)
             matched == RuleMatches(rule, request)
             step == EvaluationStep(rule, matched)
         IN  IF matched
             THEN RuleResult(rule.outcome, <<rule>>, Append(path, step))
             ELSE IF step.reason = "malformed condition"
             THEN RuleResult("GREY_ZONE", <<>>, Append(path, step))
             ELSE scanRulesStopAtMalformed(Tail(ordered), request,
                                           Append(path, step))

RECURSIVE scanRules(_, _, _)
\* the loop over the ordered rules: one step per rule tried, first match wins
scanRules(ordered, request, path) ==
    IF ordered = <<>> THEN RuleResult("GREY_ZONE", <<>>, path)
    ELSE LET rule == Head(ordered)
             matched == RuleMatches(rule, request)
             step == EvaluationStep(rule, matched)
         IN  IF matched
             THEN RuleResult(rule.outcome, <<rule>>, Append(path, step))
             ELSE scanRules(Tail(ordered), request, Append(path, step))

evaluate(ruleList, request) == scanRules(priorityOrder(ruleList), request, <<>>)

(* ------------------------------------------------------------------ *)
(* Orchestrator (decide) and the POST /decide route handler: values   *)
(* ------------------------------------------------------------------ *)

RequestIds == {"req_1", "req_2"}

\* the response envelope: decision, rule summary, advisory summary (<<>> when
\* there is none), the request id it carries, and whether it is an error body
Envelope(final, source, confidence, outcome, analysis, id, isError) ==
    [decision |-> [final |-> final, source |-> source,
                   confidence |-> confidence],
     outcome |-> outcome, aiAnalysis |-> analysis, requestId |-> id,
     error |-> isError]

NoResult == Envelope("", "", <<>>, "", <<>>, "", FALSE)

NoResponse == [status |-> 0, body |-> NoResult]

\* the insight decide keeps when the advisory stage is skipped
SkippedInsight == DisabledInsight

\* mutant: the advisory is consulted for every outcome but SAFE_DENY
advisoryGateNotDeny(outcome, analyzer) ==
    outcome # "SAFE_DENY" /\ analyzer.enabled

\* decide runs the advisory stage only for a grey zone with the advisor on
advisoryGate(outcome, analyzer) ==
    outcome = "GREY_ZONE" /\ analyzer.enabled

\* stage 4 of decide: the envelope of a combined decision
assemble(combined, evaluated, insight, id) ==
    Envelope(combined.finalDecision, combined.source, combined.confidence,
             evaluated.outcome,
             IF IsAnalyzed(insight)
             THEN << [recommendation |-> insight.recommendation,
                      confidence |-> insight.confidence[1]] >>
             ELSE <<>>,
             id, FALSE)

\* decide's catch boundary: the envelope of a failed pipeline
decideError(id) == Envelope("ERROR", "SYSTEM_ERROR", <<>>, "", <<>>, id, TRUE)

\* mutant: the handler's error body carries no request id
routeCatchNoRequestId(id) ==
    [status |-> 500,
     body |-> Envelope("ERROR", "SYSTEM_ERROR", <<>>, "", <<>>, "", TRUE)]

\* the route handler's catch block
routeCatch(id) ==
    [status |-> 500,
     body |-> Envelope("ERROR", "SYSTEM_ERROR", <<>>, "", <<>>, id, TRUE)]

\* mutant: whatever decide returns is sent with status 200
routeRespondAlwaysOk(decided) == [status |-> 200, body |-> decided]

\* the route handler's try block once decide has returned
routeRespond(decided) ==
    [status |-> IF decided.decision.final = "ERROR" THEN 500 ELSE 200,
     body |-> decided]

\* the advisor configurations the pipeline is run with
PipelineConfigs == { c \in Configs : Len(c.providers) <= 1 }

\* a provider endpoint that answers DENY with confidence 0.92
DenyReply ==
    [kind |-> "response", shape |-> "gemini", blockReason |-> FALSE,
     text |-> << [json |-> "object", recommendation |-> <<"DENY">>,
                  confidence |-> [type |-> "number", val |-> 92],
                  reasoning |-> <<"because">>, risk_factors |-> <<>>,
                  mitigating_factors |-> <<>>] >>]

(* ------------------------------------------------------------------ *)
(* State                                                              *)
(* ------------------------------------------------------------------ *)

VARIABLES
    config,       \* the configuration object handed to the constructor
    this,         \* the analyzer's fields
    ruleOutcome,  \* the rule outcome the caller combines with
    pc,           \* where the call is: start, loop, awaiting, returned, done
    idx,          \* position of the provider loop (1-based)
    attempts,     \* list positions callProvider was invoked for, in order
    requests,     \* list positions an axios.post was issued for, in order
    failed,       \* list positions whose attempt was caught, in order
    lastReply,    \* what the network did to the latest request
    lastError,    \* message of the latest console.warn
    aiInsight,    \* what analyze returned
    decision,     \* what combineDecision returned
    lastText,     \* the text callProvider returned last (<<>>: none yet)
    analyzeCalls, \* how many times analyze was entered
    stub,         \* <<net>>: every request is answered with net; <<>>: freely
    rules,        \* the active rule set, in configuration order
    input,        \* the request being decided
    ruleResult,   \* what RuleEngine.evaluate returned
    stage,        \* where decide and the route handler are
    requestId,    \* req.requestId
    fault,        \* the stage of decide that raised an exception, if any
    result,       \* what decide returned to the route handler
    response,     \* what the route handler sent
    snapshot,     \* <<ordered rules>> the evaluation in flight holds, or <<>>
    cursor,       \* position of the evaluation in flight (1-based)
    trace,        \* evaluation steps of the evaluation in flight so far
    startedAt,    \* how many reloads had been requested when it began
    reloads,      \* how many reloads were requested
    lastReload,   \* none, accepted, rejected: how the latest reload ended
    previous,     \* the rule set that was active before the latest reload
    installed,    \* every rule set that has been active, oldest first
    shuttingDown, \* what isShuttingDown() returns now
    reqPath,      \* req.path of the request at the middleware
    mw,           \* idle, arrived, answered (by the middleware), passed
    resStatus,    \* status the middleware answered with (0: none)
    nextCalls,    \* how often next() was called for the request
    handled       \* requests the middleware is done with

\* what only the decision pipeline changes
pipeVars ==
    <<stub, rules, input, ruleResult, stage, requestId, fault, result,
      response>>

\* the rule engine's snapshot handling
reloadVars ==
    <<snapshot, cursor, trace, startedAt, reloads, lastReload, previous,
      installed>>

\* the shutdown-awareness middleware
mwVars == <<shuttingDown, reqPath, mw, resStatus, nextCalls, handled>>

\* what neither the analyzer nor decide nor the route handler touches
sideVars == <<reloadVars, mwVars>>

vars ==
    <<config, this, ruleOutcome, pc, idx, attempts, requests, failed,
      lastReply, lastError, aiInsight, decision, lastText, analyzeCalls,
      pipeVars, sideVars>>

\* how the network treated a request, seen from outside the analyzer
ReplyKind(provider, net) ==
    IF net.kind # "response" THEN net.kind
    ELSE IF provider.name = "gemini" /\ net.blockReason THEN "blocked"
    ELSE IF net.text = <<>> \/ net.shape # provider.name THEN "empty"
    ELSE "text"

\* the analyzer is driven directly: no rule engine, no route handler
NoPipeline ==
    /\ stub = <<>>
    /\ rules = <<>>
    /\ input = NoInput
    /\ ruleResult = NoRuleResult
    /\ stage = "direct"
    /\ requestId = ""
    /\ fault = "none"
    /\ result = NoResult
    /\ response = NoResponse

\* no evaluation is in flight and no reload was requested
NoReload ==
    /\ snapshot = <<>>
    /\ cursor = 0
    /\ trace = <<>>
    /\ startedAt = 0
    /\ reloads = 0
    /\ lastReload = "none"
    /\ previous = <<>>
    /\ installed = <<>>

\* no request is at the middleware
NoMiddleware ==
    /\ shuttingDown = FALSE
    /\ reqPath = ""
    /\ mw = "idle"
    /\ resStatus = 0
    /\ nextCalls = 0
    /\ handled = 0

Init ==
    /\ config \in Configs
    /\ this = constructor(config)
    /\ ruleOutcome \in RuleOutcomes
    /\ pc = "start"
    /\ idx = 0
    /\ attempts = <<>>
    /\ requests = <<>>
    /\ failed = <<>>
    /\ lastReply = "none"
    /\ lastError = ""
    /\ aiInsight = NullInsight
    /\ decision = NoDecision
    /\ lastText = <<>>
    /\ analyzeCalls = 0
    /\ NoPipeline
    /\ NoReload
    /\ NoMiddleware

\* mutant: the loop gives up after the first provider
loopExhaustedAfterFirst(self, i) == i > Min(1, Len(self.providers))

\* for (const provider of this.providers) has run out
loopExhausted(self, i) == i > Len(self.providers)

\* analyze is entered: the enabled check, then the prompt is built
AnalyzeEnter ==
    /\ pc = "start"
    /\ IF ~this.enabled
       THEN /\ aiInsight' = DisabledInsight
            /\ pc' = "returned"
            /\ idx' = idx
       ELSE /\ idx' = 1
            /\ pc' = "loop"
            /\ aiInsight' = aiInsight
    /\ analyzeCalls' = analyzeCalls + 1
    /\ UNCHANGED <<config, this, ruleOutcome, attempts, requests, failed,
                   lastReply, lastError, decision, lastText, pipeVars,
                   sideVars>>

\* mutant: a provider that failed is tried a second time before moving on
CatchAndRetryOnce(message) ==
    /\ lastError' = message
    /\ failed' = Append(failed, idx)
    /\ idx' = IF \E k \in 1..Len(failed) : failed[k] = idx
              THEN idx + 1 ELSE idx
    /\ pc' = "loop"

\* the catch block of the provider loop: warn, go on with the next provider
CatchAndContinue(message) ==
    /\ lastError' = message
    /\ failed' = Append(failed, idx)
    /\ idx' = idx + 1
    /\ pc' = "loop"

\* callProvider is invoked for the next provider: either the name is unknown
\* and it throws at once, or the request is posted and analyze awaits
ProviderCall ==
    /\ pc = "loop"
    /\ ~loopExhausted(this, idx)
    /\ attempts' = Append(attempts, idx)
    /\ IF this.providers[idx].name \in KnownProviderNames
       THEN /\ requests' = Append(requests, idx)
            /\ pc' = "awaiting"
            /\ UNCHANGED <<idx, failed, lastError>>
       ELSE /\ CatchAndContinue("Unknown provider")
            /\ requests' = requests
    /\ UNCHANGED <<config, this, ruleOutcome, lastReply, aiInsight, decision,
                   lastText, analyzeCalls, pipeVars, sideVars>>

\* the awaited post settles; callProvider throws into the catch block or
\* returns the text, which is parsed and returned as the insight
ProviderReply ==
    /\ pc = "awaiting"
    /\ \E net \in NetOutcomes :
         LET provider == this.providers[idx]
             called == callProvider(provider, net)
         IN  /\ IF stub = <<>> THEN TRUE ELSE net = stub[1]
             /\ lastReply' = ReplyKind(provider, net)
             /\ IF called.threw
                THEN /\ CatchAndContinue(called.message)
                     /\ UNCHANGED <<aiInsight, lastText>>
                ELSE /\ aiInsight' =
                          SuccessInsight(this, provider,
                                         parseResponse(called.content))
                     /\ lastText' = called.content
                     /\ pc' = "returned"
                     /\ UNCHANGED <<idx, failed, lastError>>
    /\ UNCHANGED <<config, this, ruleOutcome, attempts, requests, decision,
                   analyzeCalls, pipeVars, sideVars>>

\* the loop ran out without a return
AllProvidersFailed ==
    /\ pc = "loop"
    /\ loopExhausted(this, idx)
    /\ aiInsight' = AllProvidersFailedInsight
    /\ pc' = "returned"
    /\ UNCHANGED <<config, this, ruleOutcome, idx, attempts, requests,
                   failed, lastReply, lastError, decision, lastText,
                   analyzeCalls, pipeVars, sideVars>>

\* the caller combines the rule outcome with the insight
Combine ==
    /\ pc = "returned"
    /\ decision' = combineDecision(this, ruleOutcome, aiInsight)
    /\ pc' = "done"
    /\ UNCHANGED <<config, this, ruleOutcome, idx, attempts, requests,
                   failed, lastReply, lastError, aiInsight, lastText,
                   analyzeCalls, pipeVars, sideVars>>

(* ------------------------------------------------------------------ *)
(* The decision pipeline: route handler -> decide -> response         *)
(* ------------------------------------------------------------------ *)

InitPipeline ==
    /\ config \in PipelineConfigs
    /\ this = constructor(config)
    /\ rules \in RuleSets(1)
    /\ input \in Inputs
    /\ requestId \in RequestIds
    /\ stub \in { <<>>, <<DenyReply>> }
    /\ ruleOutcome = ""
    /\ ruleResult = NoRuleResult
    /\ stage = "received"
    /\ fault = "none"
    /\ result = NoResult
    /\ response = NoResponse
    /\ pc = "idle"
    /\ idx = 0
    /\ attempts = <<>>
    /\ requests = <<>>
    /\ failed = <<>>
    /\ lastReply = "none"
    /\ lastError = ""
    /\ aiInsight = NullInsight
    /\ decision = NoDecision
    /\ lastText = <<>>
    /\ analyzeCalls = 0
    /\ NoReload
    /\ NoMiddleware

analyzerVars ==
    <<config, this, idx, attempts, requests, failed, lastReply, lastError,
      lastText, analyzeCalls, decision>>

\* stage 1 of decide: the rule engine
DecideEvaluate ==
    /\ stage = "received"
    /\ ruleResult' = evaluate(rules, input)
    /\ ruleOutcome' = ruleResult'.outcome
    /\ stage' = "evaluated"
    /\ UNCHANGED <<sideVars, analyzerVars, pc, aiInsight, stub, rules, input,
                   requestId,
                   fault, result, response>>

\* stage 2 of decide: call analyze, or skip the advisory
DecideAdvisory ==
    /\ stage = "evaluated"
    /\ IF advisoryGate(ruleResult.outcome, this)
       THEN pc' = "start" /\ aiInsight' = aiInsight
       ELSE pc' = "returned" /\ aiInsight' = SkippedInsight
    /\ stage' = "advising"
    /\ UNCHANGED <<sideVars, analyzerVars,
                   ruleOutcome, stub, rules, input, ruleResult,
                   requestId, fault, result, response>>

\* an exception in stages 1-3 reaches decide's catch, which returns the
\* error envelope
DecideRaise ==
    /\ stage \in {"received", "evaluated", "advising"}
    /\ pc # "done"
    /\ fault' = stage
    /\ result' = decideError(requestId)
    /\ stage' = "returned"
    /\ UNCHANGED <<sideVars, analyzerVars,
                   ruleOutcome, pc, aiInsight, stub, rules,
                   input, ruleResult, requestId, response>>

\* stage 4 of decide: the envelope is assembled and returned
DecideAssemble ==
    /\ stage = "advising"
    /\ pc = "done"
    /\ result' = assemble(decision, ruleResult, aiInsight, requestId)
    /\ stage' = "returned"
    /\ UNCHANGED <<sideVars, analyzerVars,
                   ruleOutcome, pc, aiInsight, stub, rules,
                   input, ruleResult, requestId, fault, response>>

\* an exception past the catch boundary: decide rejects
DecideReject ==
    /\ stage = "advising"
    /\ pc = "done"
    /\ fault' = "assemble"
    /\ stage' = "rejected"
    /\ UNCHANGED <<sideVars, analyzerVars,
                   ruleOutcome, pc, aiInsight, stub, rules,
                   input, ruleResult, requestId, result, response>>

\* the handler sends what decide returned
RouteRespond ==
    /\ stage = "returned"
    /\ response' = routeRespond(result)
    /\ stage' = "responded"
    /\ UNCHANGED <<sideVars, analyzerVars,
                   ruleOutcome, pc, aiInsight, stub, rules,
                   input, ruleResult, requestId, fault, result>>

\* the handler's catch sends the error body
RouteCatch ==
    /\ stage = "rejected"
    /\ response' = routeCatch(requestId)
    /\ stage' = "responded"
    /\ UNCHANGED <<sideVars, analyzerVars,
                   ruleOutcome, pc, aiInsight, stub, rules,
                   input, ruleResult, requestId, fault, result>>

\* analyze and combineDecision run only while decide is in its try block
InTry == stage = "advising"

NextPipeline ==
    \/ DecideEvaluate
    \/ DecideAdvisory
    \/ InTry /\ AnalyzeEnter
    \/ InTry /\ ProviderCall
    \/ InTry /\ ProviderReply
    \/ InTry /\ AllProvidersFailed
    \/ InTry /\ Combine
    \/ DecideRaise
    \/ DecideAssemble
    \/ DecideReject
    \/ RouteRespond
    \/ RouteCatch

SpecPipeline == InitPipeline /\ [][NextPipeline]_vars

(* ------------------------------------------------------------------ *)
(* RuleEngine.evaluate on its own: any rule set with any request      *)
(* ------------------------------------------------------------------ *)

InitRules ==
    /\ config \in { c \in Configs : c.providers = <<>> }
    /\ this = constructor(config)
    /\ rules \in RuleSets(MaxRules)
    /\ input \in Inputs
    /\ requestId = ""
    /\ stub = <<>>
    /\ ruleOutcome = ""
    /\ ruleResult = NoRuleResult
    /\ stage = "received"
    /\ fault = "none"
    /\ result = NoResult
    /\ response = NoResponse
    /\ pc = "idle"
    /\ idx = 0
    /\ attempts = <<>>
    /\ requests = <<>>
    /\ failed = <<>>
    /\ lastReply = "none"
    /\ lastError = ""
    /\ aiInsight = NullInsight
    /\ decision = NoDecision
    /\ lastText = <<>>
    /\ analyzeCalls = 0
    /\ NoReload
    /\ NoMiddleware

NextRules == DecideEvaluate

SpecRules == InitRules /\ [][NextRules]_vars

(* ------------------------------------------------------------------ *)
(* RuleEngine: the active snapshot, evaluation in flight, hot reload  *)
(* ------------------------------------------------------------------ *)

\* most reloads requested while one request is evaluated
MaxReloads == 2

PoolRule(id) == CHOOSE r \in RulePool : r.id = id

\* rules a replacement may carry that do not fit the rule data model: an
\* outcome that is no verdict, a missing id
InvalidRules ==
    { Rule("ALLOW_009", 1,
           << Condition("request.type", "exists", <<Num(0)>>) >>, "MAYBE"),
      Rule("", 1,
           << Condition("signals.risk_score", "gt", <<Num(5)>>) >>,
           "SAFE_DENY") }

validRule(rule) ==
    /\ rule.id # ""
    /\ rule.priority \in Nat
    /\ rule.outcome \in {"SAFE_ALLOW", "SAFE_DENY"}

\* validation of a full replacement: every rule fits the data model
validRuleSet(ruleList) ==
    \A k \in 1..Len(ruleList) : validRule(ruleList[k])

\* the full replacements a reload may be handed
ReloadCandidates ==
    { <<>>,
      << PoolRule("DENY_001") >>,
      << PoolRule("ALLOW_002"), PoolRule("DENY_001") >>,
      << PoolRule("ALLOW_001"), PoolRule("ALLOW_003") >>,
      << PoolRule("BAD_OP"), PoolRule("DENY_002") >> }
    \cup { <<r>> : r \in InvalidRules }
    \cup { << PoolRule("DENY_001"), r >> : r \in InvalidRules }

\* mutant: the replacement is installed before it is validated
reloadOutcomeSwapFirst(active, candidate) ==
    [rules |-> candidate,
     status |-> IF validRuleSet(candidate) THEN "accepted" ELSE "rejected"]

\* reload: validate, then swap the whole snapshot in one step
reloadOutcome(active, candidate) ==
    IF validRuleSet(candidate)
    THEN [rules |-> candidate, status |-> "accepted"]
    ELSE [rules |-> active, status |-> "rejected"]

\* mutant: each step reads the rule list that is active at that moment
inFlightRulesLive(snap, active) == priorityOrder(active)

\* the rule list an evaluation in flight goes through: the snapshot it took
inFlightRules(snap, active) == snap[1]

InitReload ==
    /\ config = [enabled |-> "false", providers |-> <<>>,
                 confidenceThreshold |-> <<>>]
    /\ this = constructor(config)
    /\ rules \in { c \in ReloadCandidates : validRuleSet(c) }
    /\ input \in Inputs
    /\ requestId = ""
    /\ stub = <<>>
    /\ ruleOutcome = ""
    /\ ruleResult = NoRuleResult
    /\ stage = "received"
    /\ fault = "none"
    /\ result = NoResult
    /\ response = NoResponse
    /\ pc = "idle"
    /\ idx = 0
    /\ attempts = <<>>
    /\ requests = <<>>
    /\ failed = <<>>
    /\ lastReply = "none"
    /\ lastError = ""
    /\ aiInsight = NullInsight
    /\ decision = NoDecision
    /\ lastText = <<>>
    /\ analyzeCalls = 0
    /\ snapshot = <<>>
    /\ cursor = 0
    /\ trace = <<>>
    /\ startedAt = 0
    /\ reloads = 0
    /\ lastReload = "none"
    /\ previous = rules
    /\ installed = <<rules>>
    /\ NoMiddleware

\* what the rule engine leaves alone
engineFrame ==
    <<analyzerVars, mwVars, pc, aiInsight, stub, input, requestId, fault,
      result, response>>

\* evaluate begins: it takes the active snapshot, in priority order
EvaluateBegin ==
    /\ stage = "received"
    /\ snapshot' = << priorityOrder(rules) >>
    /\ cursor' = 1
    /\ trace' = <<>>
    /\ startedAt' = reloads
    /\ stage' = "evaluating"
    /\ UNCHANGED <<engineFrame, rules, ruleResult, ruleOutcome, reloads,
                   lastReload, previous, installed>>

\* evaluate tries the next rule of its list, or finds the list at its end
EvaluateRule ==
    /\ stage = "evaluating"
    /\ LET ordered == inFlightRules(snapshot, rules)
       IN  IF cursor > Len(ordered)
           THEN /\ ruleResult' = RuleResult("GREY_ZONE", <<>>, trace)
                /\ stage' = "evaluated"
                /\ UNCHANGED <<cursor, trace>>
           ELSE LET rule == ordered[cursor]
                    matched == RuleMatches(rule, input)
                    step == EvaluationStep(rule, matched)
                IN  /\ trace' = Append(trace, step)
                    /\ IF matched
                       THEN /\ ruleResult' =
                                 RuleResult(rule.outcome, <<rule>>, trace')
                            /\ stage' = "evaluated"
                            /\ cursor' = cursor
                       ELSE /\ cursor' = cursor + 1
                            /\ UNCHANGED <<ruleResult, stage>>
    /\ ruleOutcome' = ruleResult'.outcome
    /\ UNCHANGED <<engineFrame, rules, snapshot, startedAt, reloads,
                   lastReload, previous, installed>>

\* the reload entry point is handed a full replacement
Reload ==
    /\ stage \in {"received", "evaluating"}
    /\ reloads < MaxReloads
    /\ \E candidate \in ReloadCandidates :
         LET outcome == reloadOutcome(rules, candidate)
         IN  /\ rules' = outcome.rules
             /\ lastReload' = outcome.status
             /\ installed' = IF outcome.status = "accepted"
                             THEN Append(installed, candidate)
                             ELSE installed
    /\ previous' = rules
    /\ reloads' = reloads + 1
    /\ UNCHANGED <<engineFrame, ruleResult, ruleOutcome, stage, snapshot,
                   cursor, trace, startedAt>>

NextReload ==
    \/ EvaluateBegin
    \/ EvaluateRule
    \/ Reload

SpecReload == InitReload /\ [][NextReload]_vars

(* ------------------------------------------------------------------ *)
(* awarenessMiddleware: requests while the service shuts down         *)
(* ------------------------------------------------------------------ *)

\* most requests that pass the middleware in a run
MaxRequests == 4

\* req.path of the requests that arrive
RequestPaths == {"/health", "/health/live", "/decide", "/ready", "/metrics"}

\* mutant: the health check is refused like everything else
awarenessMiddlewareNoHealthPass(isShuttingDown, path) ==
    IF isShuttingDown
    THEN [status |-> 503, next |-> FALSE]
    ELSE [status |-> 0, next |-> TRUE]

\* what the middleware does with a request: the status it answers with
\* (0: it does not answer) and whether it calls next()
awarenessMiddleware(isShuttingDown, path) ==
    IF isShuttingDown /\ path # "/health"
    THEN [status |-> 503, next |-> FALSE]
    ELSE [status |-> 0, next |-> TRUE]

InitAwareness ==
    /\ config = [enabled |-> "false", providers |-> <<>>,
                 confidenceThreshold |-> <<>>]
    /\ this = constructor(config)
    /\ ruleOutcome = ""
    /\ pc = "idle"
    /\ idx = 0
    /\ attempts = <<>>
    /\ requests = <<>>
    /\ failed = <<>>
    /\ lastReply = "none"
    /\ lastError = ""
    /\ aiInsight = NullInsight
    /\ decision = NoDecision
    /\ lastText = <<>>
    /\ analyzeCalls = 0
    /\ NoPipeline
    /\ NoReload
    /\ NoMiddleware

\* what the middleware leaves alone
awarenessFrame ==
    <<config, this, ruleOutcome, pc, idx, attempts, requests, failed,
      lastReply, lastError, aiInsight, decision, lastText, analyzeCalls,
      pipeVars, reloadVars>>

\* a request reaches the middleware
RequestArrives ==
    /\ mw = "idle"
    /\ handled < MaxRequests
    /\ reqPath' \in RequestPaths
    /\ mw' = "arrived"
    /\ resStatus' = 0
    /\ nextCalls' = 0
    /\ UNCHANGED <<awarenessFrame, shuttingDown, handled>>

\* the middleware function runs for the request
AwarenessMiddleware ==
    /\ mw = "arrived"
    /\ LET done == awarenessMiddleware(shuttingDown, reqPath)
       IN  /\ resStatus' = done.status
           /\ nextCalls' = IF done.next THEN nextCalls + 1 ELSE nextCalls
           /\ mw' = IF done.next THEN "passed" ELSE "answered"
    /\ UNCHANGED <<awarenessFrame, shuttingDown, reqPath, handled>>

\* the request is over, answered here or by a later handler
RequestDone ==
    /\ mw \in {"answered", "passed"}
    /\ mw' = "idle"
    /\ reqPath' = ""
    /\ resStatus' = 0
    /\ nextCalls' = 0
    /\ handled' = handled + 1
    /\ UNCHANGED <<awarenessFrame, shuttingDown>>

\* what isShuttingDown() returns changes
ShutdownFlagChanges ==
    /\ shuttingDown' = ~shuttingDown
    /\ UNCHANGED <<awarenessFrame, reqPath, mw, resStatus, nextCalls, handled>>

NextAwareness ==
    \/ RequestArrives
    \/ AwarenessMiddleware
    \/ RequestDone
    \/ ShutdownFlagChanges

SpecAwareness == InitAwareness /\ [][NextAwareness]_vars

Next ==
    \/ AnalyzeEnter
    \/ ProviderCall
    \/ ProviderReply
    \/ AllProvidersFailed
    \/ Combine

Spec == Init /\ [][Next]_vars

\* every awaited request settles (axios rejects it at the timeout at the
\* latest) and the code between two awaits runs to completion
SpecLive == Init /\ [][Next]_vars /\ WF_vars(Next)

(* ------------------------------------------------------------------ *)
(* combineDecision on its own: any outcome with any insight           *)
(* ------------------------------------------------------------------ *)

InitCombine ==
    /\ config \in Configs
    /\ this = constructor(config)
    /\ ruleOutcome \in RuleOutcomes
    /\ aiInsight \in AnyInsights
    /\ pc = "returned"
    /\ idx = 0
    /\ attempts = <<>>
    /\ requests = <<>>
    /\ failed = <<>>
    /\ lastReply = "none"
    /\ lastError = ""
    /\ decision = NoDecision
    /\ lastText = <<>>
    /\ analyzeCalls = 0
    /\ NoPipeline
    /\ NoReload
    /\ NoMiddleware

NextCombine == Combine

SpecCombine == InitCombine /\ [][NextCombine]_vars

(* ------------------------------------------------------------------ *)
(* Properties                                                         *)
(* ------------------------------------------------------------------ *)

Returned == pc \in {"returned", "done"}

\* C1: a SAFE_DENY outcome combines to DENY / RULE_ABSOLUTE, with no
\* confidence attached, whatever the insight is (null, not analyzed, or
\* analyzed with any recommendation, confidence and threshold flag).
C1_SafeDenyAbsolute ==
    (pc = "done" /\ ruleOutcome = "SAFE_DENY")
        => decision = Decision("DENY", "RULE_ABSOLUTE", <<>>)

C1_Witness ==
    /\ pc = "done"
    /\ ruleOutcome = "SAFE_DENY"
    /\ IsAnalyzed(aiInsight)
    /\ aiInsight.recommendation = "ALLOW"
    /\ aiInsight.meetsConfidenceThreshold
    /\ aiInsight.confidence = <<100>>
    /\ decision.finalDecision = "DENY"

C3_NoAdvisoryFallback ==
    (/\ pc = "done"
     /\ ruleOutcome = "GREY_ZONE"
     /\ (~this.enabled \/ Len(failed) = Len(this.providers)))
        => /\ aiInsight.present
           /\ ~aiInsight.analyzed
           /\ decision.finalDecision = "REVIEW"
           /\ decision.source = "AI_UNAVAILABLE"

\* two providers were configured and both failed
C3_Witness ==
    /\ pc = "done"
    /\ ruleOutcome = "GREY_ZONE"
    /\ this.enabled
    /\ Len(this.providers) >= 2
    /\ Len(failed) = Len(this.providers)
    /\ decision.source = "AI_UNAVAILABLE"

\* C4: a GREY_ZONE outcome with an analyzed insight whose threshold flag is
\* set combines to the insight's recommendation, source AI_RECOMMENDED, and
\* the insight's confidence.
C4_GreyZoneRecommended ==
    (/\ pc = "done"
     /\ ruleOutcome = "GREY_ZONE"
     /\ IsAnalyzed(aiInsight)
     /\ aiInsight.meetsConfidenceThreshold)
        => /\ decision.finalDecision = aiInsight.recommendation
           /\ decision.source = "AI_RECOMMENDED"
           /\ decision.confidence = aiInsight.confidence

C4_Witness ==
    /\ pc = "done"
    /\ ruleOutcome = "GREY_ZONE"
    /\ IsAnalyzed(aiInsight)
    /\ aiInsight.meetsConfidenceThreshold
    /\ aiInsight.recommendation = "DENY"
    /\ decision.finalDecision = "DENY"
    /\ decision.confidence = <<92>>

\* C5: a GREY_ZONE outcome with an analyzed insight whose threshold flag is
\* not set combines to REVIEW / AI_UNCERTAIN, whatever it recommends.
C5_GreyZoneUncertain ==
    (/\ pc = "done"
     /\ ruleOutcome = "GREY_ZONE"
     /\ IsAnalyzed(aiInsight)
     /\ ~aiInsight.meetsConfidenceThreshold)
        => /\ decision.finalDecision = "REVIEW"
           /\ decision.source = "AI_UNCERTAIN"

C5_Witness ==
    /\ pc = "done"
    /\ ruleOutcome = "GREY_ZONE"
    /\ IsAnalyzed(aiInsight)
    /\ ~aiInsight.meetsConfidenceThreshold
    /\ aiInsight.recommendation = "DENY"
    /\ decision.source = "AI_UNCERTAIN"

\* C6: combineDecision is total: with any outcome and any insight it can
\* run, and what it returns has final in {ALLOW, DENY, REVIEW} and a source
\* among the six documented tags.
C6_CombineTotal ==
    /\ pc = "returned" => ENABLED Combine
    /\ pc = "done" => /\ decision.finalDecision \in FinalDecisions
                      /\ decision.source \in DecisionSources

\* the null insight on the grey-zone branch
C6_Witness ==
    /\ pc = "done"
    /\ ~aiInsight.present
    /\ ruleOutcome = "GREY_ZONE"
    /\ decision.finalDecision = "REVIEW"

\* C7: with enabled false or missing in the configuration, analyze returns
\* an insight that is not analyzed, and neither callProvider nor the network
\* is ever used, however many providers are configured.
C7_DisabledNoCalls ==
    config.enabled # "true"
        => /\ attempts = <<>>
           /\ requests = <<>>
           /\ pc \notin {"loop", "awaiting"}
           /\ Returned => (aiInsight.present /\ ~aiInsight.analyzed)

C7_Witness ==
    /\ pc = "returned"
    /\ config.enabled = "undefined"
    /\ Len(this.providers) >= 2
    /\ ~aiInsight.analyzed

\* C8: providers are attempted in list order, one at a time: the attempts
\* are positions 1, 2, ... without gap or repeat, all but possibly the last
\* have failed, at most one is outstanding, nothing is attempted after a
\* success, and an analyzed insight carries the name and model of the
\* provider at the last attempted position.
C8_OrderedFallback ==
    /\ \A k \in 1..Len(attempts) : attempts[k] = k
    /\ \A k \in 1..Len(failed) : failed[k] = k
    /\ \A k \in 1..Len(requests) :
           /\ requests[k] \in 1..Len(attempts)
           /\ k > 1 => requests[k - 1] < requests[k]
    /\ Len(attempts) - Len(failed) =
           (IF pc = "awaiting" \/ (Returned /\ IsAnalyzed(aiInsight))
            THEN 1 ELSE 0)
    /\ (Returned /\ IsAnalyzed(aiInsight))
           => /\ aiInsight.provider = this.providers[Len(attempts)].name
              /\ aiInsight.model = this.providers[Len(attempts)].model

\* the second provider answered after the first, a different one, failed
C8_Witness ==
    /\ pc = "returned"
    /\ IsAnalyzed(aiInsight)
    /\ failed = <<1>>
    /\ attempts = <<1, 2>>
    /\ this.providers[1].name # this.providers[2].name
    /\ aiInsight.provider = this.providers[2].name

ProviderFailures == {"timeout", "transport", "blocked", "empty"}

\* C9: when the outstanding request ends in a timeout, a transport error, a
\* safety block or an empty reply, analyze records the failure and moves on
\* to the next list position; it neither returns nor throws at that point.
C9_FailureAbsorbed ==
    [][(pc = "awaiting" /\ lastReply' \in ProviderFailures)
          => /\ pc' = "loop"
             /\ idx' = idx + 1
             /\ failed' = Append(failed, idx)
             /\ aiInsight' = aiInsight]_vars

\* an empty reply from the first provider was absorbed
C9_Witness ==
    /\ pc = "loop"
    /\ lastReply = "empty"
    /\ failed = <<1>>
    /\ idx = 2

\* C10: with the advisor enabled, analyze returns a not-analyzed insight
\* exactly when every configured provider has failed (none configured
\* included); that insight has reason ALL_PROVIDERS_FAILED and the threshold
\* flag unset, and every list position has been attempted by then.
C10_AllProvidersFailed ==
    (this.enabled /\ Returned)
        => /\ (Len(failed) = Len(this.providers)) <=> ~aiInsight.analyzed
           /\ ~aiInsight.analyzed
                 => /\ aiInsight.reason = "ALL_PROVIDERS_FAILED"
                    /\ ~aiInsight.meetsConfidenceThreshold
                    /\ Len(attempts) = Len(this.providers)
                    /\ \A k \in 1..Len(this.providers) : attempts[k] = k

C10_Witness ==
    /\ pc = "returned"
    /\ this.enabled
    /\ Len(this.providers) >= 2
    /\ Len(failed) = Len(this.providers)
    /\ aiInsight.reason = "ALL_PROVIDERS_FAILED"

\* analyze returned an insight built from a provider's reply text
Answered == Returned /\ IsAnalyzed(aiInsight) /\ lastText # <<>>

\* C11: a non-empty reply that does not decode as one JSON object ends
\* analyze at that provider with an analyzed insight of recommendation
\* REVIEW, confidence 0 and reasoning 'Invalid AI response'.
C11_UndecodableReplyAccepted ==
    (Returned /\ lastText # <<>> /\ lastText[1].json # "object")
        => /\ IsAnalyzed(aiInsight)
           /\ Len(attempts) = Len(failed) + 1
           /\ aiInsight.recommendation = "REVIEW"
           /\ aiInsight.confidence = <<0>>
           /\ aiInsight.reasoning = "Invalid AI response"

\* C12: the confidence of every insight built from a reply lies in [0, 1]
\* (0..100 hundredths): a numeric confidence of a decoded reply is stored
\* clamped to the nearest bound, anything else gets a default in the range.
C12_ConfidenceClamped ==
    Answered
        => LET raw == lastText[1]
               stored == aiInsight.confidence[1]
           IN  /\ stored \in 0..100
               /\ (raw.json = "object" /\ raw.confidence.type = "number")
                     => stored = (IF raw.confidence.val < 0 THEN 0
                                  ELSE IF raw.confidence.val > 100 THEN 100
                                  ELSE raw.confidence.val)

\* a confidence of 1.5 was stored as 1
C12_Witness ==
    /\ Answered
    /\ lastText[1].confidence = [type |-> "number", val |-> 150]
    /\ aiInsight.confidence = <<100>>

\* what C13 says of a reply whose decoded members are those of raw
DecodedDefaults(raw) ==
    /\ aiInsight.recommendation =
           (IF raw.recommendation # <<>>
               /\ raw.recommendation[1] \in {"ALLOW", "DENY", "REVIEW"}
            THEN raw.recommendation[1] ELSE "REVIEW")
    /\ raw.confidence.type # "number" => aiInsight.confidence = <<50>>
    /\ raw.risk_factors = <<>> => aiInsight.riskFactors = << <<>> >>
    /\ raw.mitigating_factors = <<>>
          => aiInsight.mitigatingFactors = << <<>> >>

\* C13 as claimed: for every reply that decodes as JSON, the recommendation
\* is kept only if it is ALLOW, DENY or REVIEW and is REVIEW otherwise, the
\* confidence is 0.5 when absent or not a number, and the factor lists are
\* empty when absent.
C13_AnyJsonReplyDefaults ==
    (Answered /\ lastText[1].json # "notjson") => DecodedDefaults(lastText[1])

\* C13 as amended: the same for every reply that decodes as JSON to anything
\* but null; and every analyzed insight recommends ALLOW, DENY or REVIEW.
C13_DecodedReplyDefaults ==
    /\ (Answered /\ lastText[1].json \in {"scalar", "object"})
          => DecodedDefaults(lastText[1])
    /\ (Returned /\ IsAnalyzed(aiInsight))
          => aiInsight.recommendation \in {"ALLOW", "DENY", "REVIEW"}

\* an unknown recommendation and a string confidence were replaced
C13_Witness ==
    /\ Answered
    /\ lastText[1].recommendation = <<"MAYBE">>
    /\ lastText[1].confidence.type = "string"
    /\ aiInsight.recommendation = "REVIEW"
    /\ aiInsight.confidence = <<50>>

\* C14: whatever threshold in [0, 1] the configuration sets, 0 included, an
\* analyzed insight has its threshold flag set exactly when its stored
\* confidence is at or above that configured threshold.
C14_FlagMatchesConfiguredThreshold ==
    (Answered /\ config.confidenceThreshold # <<>>)
        => (aiInsight.meetsConfidenceThreshold
               <=> aiInsight.confidence[1] >= config.confidenceThreshold[1])

\* C15: the pipeline answers with the request id whatever happens; once an
\* exception was raised (in the rules, the advisory, the combiner, or past
\* decide's catch) the response is the ERROR / SYSTEM_ERROR decision, and a
\* returned or rejected decide is always followed by a response.
C15_ErrorBecomesResponse ==
    /\ stage = "returned" => ENABLED RouteRespond
    /\ stage = "rejected" => ENABLED RouteCatch
    /\ stage = "responded"
          => /\ response.body.requestId = requestId
             /\ fault # "none"
                   => /\ response.body.decision.final = "ERROR"
                      /\ response.body.decision.source = "SYSTEM_ERROR"

\* the exception struck while a provider request was outstanding
C15_Witness ==
    /\ stage = "responded"
    /\ fault = "advising"
    /\ pc = "awaiting"
    /\ response.body.decision.final = "ERROR"
    /\ response.body.requestId = requestId

\* decide got past its advisory stage without an exception in stages 1-3
AdvisoryStageOver ==
    stage \in {"returned", "rejected", "responded"}
    /\ fault \in {"none", "assemble"}

\* C16: in decide, analyze is entered at most once, only for a GREY_ZONE
\* outcome with the advisor enabled, and in that case always; for SAFE_ALLOW
\* and SAFE_DENY no provider is attempted and the combiner gets an insight
\* that is not analyzed, even with the advisor enabled.
C16_AdvisoryOnlyForGreyZone ==
    /\ analyzeCalls <= 1
    /\ analyzeCalls = 1 => (ruleResult.outcome = "GREY_ZONE" /\ this.enabled)
    /\ AdvisoryStageOver
          => (analyzeCalls = 1
                 <=> (ruleResult.outcome = "GREY_ZONE" /\ this.enabled))
    /\ ruleResult.outcome \in {"SAFE_ALLOW", "SAFE_DENY"}
          => /\ attempts = <<>>
             /\ pc = "done" => (aiInsight.present /\ ~aiInsight.analyzed)

\* a rule said SAFE_ALLOW, the advisor is on with a provider, and was skipped
C16_Witness ==
    /\ stage = "responded"
    /\ ruleResult.outcome = "SAFE_ALLOW"
    /\ this.enabled
    /\ Len(this.providers) = 1
    /\ analyzeCalls = 0
    /\ pc = "done"
    /\ ~aiInsight.analyzed

\* a SAFE_ALLOW match, answered without exception, with the advisor on and
\* its one provider answering DENY 0.92 to any request, at a threshold that
\* 0.92 meets
FlagScenario ==
    /\ stage = "responded"
    /\ fault = "none"
    /\ ruleResult.outcome = "SAFE_ALLOW"
    /\ this.enabled
    /\ Len(this.providers) = 1
    /\ this.providers[1].name = "gemini"
    /\ stub = <<DenyReply>>
    /\ this.confidenceThreshold <= 92

C18_InsightOnlyMattersInGreyZone ==
    (pc = "done" /\ ruleOutcome \in {"SAFE_ALLOW", "SAFE_DENY"})
        => LET other == combineDecision(this, ruleOutcome, NullInsight)
           IN  /\ decision.finalDecision = other.finalDecision
               /\ decision.source = other.source
               /\ decision.finalDecision =
                      (IF ruleOutcome = "SAFE_ALLOW" THEN "ALLOW" ELSE "DENY")

\* rule i is tried before rule j: lower priority number first, equal
\* priorities in list order
TriedBefore(i, j) ==
    \/ rules[i].priority < rules[j].priority
    \/ rules[i].priority = rules[j].priority /\ i < j

\* list positions of the rules whose conditions all hold for the request
MatchingRules == { i \in 1..Len(rules) : RuleMatches(rules[i], input) }

StepRule(step) == CHOOSE i \in 1..Len(rules) : rules[i].id = step.ruleId

\* C20: the evaluation path has one step per rule tried, in the order
\* tried; rules left out are those behind the winner; every step before the
\* last is a non-match, and a matching step exists only as the last one,
\* for the matched rule.
C20_EvaluationPath ==
    stage = "evaluated"
        => LET path == ruleResult.evaluationPath
               n == Len(path)
           IN  /\ \A k \in 1..n : \E i \in 1..Len(rules) :
                      rules[i].id = path[k].ruleId
               /\ \A k, l \in 1..n :
                      k < l => TriedBefore(StepRule(path[k]), StepRule(path[l]))
               /\ \A i \in 1..Len(rules) :
                      (\A k \in 1..n : path[k].ruleId # rules[i].id)
                          => /\ ruleResult.matchedRule # <<>>
                             /\ n > 0
                             /\ TriedBefore(StepRule(path[n]), i)
               /\ \A k \in 1..n :
                      path[k].matched
                          <=> RuleMatches(rules[StepRule(path[k])], input)
               /\ \A k \in 1..n : k < n => ~path[k].matched
               /\ \A k \in 1..n :
                      path[k].matched
                          => /\ k = n
                             /\ ruleResult.matchedRule # <<>>
                             /\ ruleResult.matchedRule[1].id = path[k].ruleId
               /\ ruleResult.matchedRule # <<>>
                      => (n > 0 /\ path[n].matched)

\* one rule was tried without matching before the winner
C20_Witness ==
    /\ stage = "evaluated"
    /\ Len(ruleResult.evaluationPath) = 2
    /\ ~ruleResult.evaluationPath[1].matched
    /\ ruleResult.evaluationPath[2].matched
    /\ ruleResult.matchedRule # <<>>

\* the steps taken so far are the first steps of evaluating rule set s whole
SeenOnly(s) ==
    LET whole == evaluate(s, input).evaluationPath
    IN  /\ Len(trace) <= Len(whole)
        /\ \A k \in 1..Len(trace) : trace[k] = whole[k]

\* C21: an evaluation in flight while reloads happen goes through one single
\* rule set among those that have been active (the old one or a new one):
\* its steps are steps of evaluating that set alone, and its result is what
\* that set alone gives for the request.
C21_ReloadAtomicSnapshot ==
    stage \in {"evaluating", "evaluated"}
        => \E k \in 1..Len(installed) :
              /\ SeenOnly(installed[k])
              /\ stage = "evaluated"
                    => ruleResult = evaluate(installed[k], input)

\* a different rule set was installed after the first rule had been tried,
\* and the evaluation ended with what the old set gives
C21_Witness ==
    /\ stage = "evaluated"
    /\ startedAt < reloads
    /\ lastReload = "accepted"
    /\ Len(trace) = 2
    /\ ruleResult = evaluate(installed[1], input)
    /\ ruleResult # evaluate(rules, input)

\* C22: a reload whose replacement fails validation leaves the active rule
\* set as it was, and an evaluation begun after it goes through exactly the
\* previous snapshot.
C22_FailedReloadKeepsSnapshot ==
    lastReload = "rejected"
        => /\ rules = previous
           /\ rules = installed[Len(installed)]
           /\ (stage \in {"evaluating", "evaluated"} /\ startedAt = reloads)
                 => /\ snapshot = << priorityOrder(previous) >>
                    /\ stage = "evaluated"
                          => ruleResult = evaluate(previous, input)

\* an evaluation begun after a rejected reload matched a rule of the set
\* that stayed active
C22_Witness ==
    /\ stage = "evaluated"
    /\ lastReload = "rejected"
    /\ reloads >= 1
    /\ startedAt = reloads
    /\ ruleResult.matchedRule # <<>>
    /\ ruleResult = evaluate(previous, input)

\* C23: analyze always comes to an end with an insight, and on the way no
\* list position is attempted twice, no request is posted twice for one
\* position, and there are never more attempts than configured providers.
C23_TerminatesOneAttemptEach ==
    /\ <>(Returned /\ aiInsight.present)
    /\ [](/\ Len(attempts) <= Len(this.providers)
          /\ Len(requests) <= Len(attempts)
          /\ \A i, j \in 1..Len(attempts) :
                 i # j => attempts[i] # attempts[j]
          /\ \A i, j \in 1..Len(requests) :
                 i # j => requests[i] # requests[j])

\* one provider listed twice failed twice: one attempt per list entry
C23_Witness ==
    /\ pc = "returned"
    /\ Len(this.providers) = 2
    /\ this.providers[1] = this.providers[2]
    /\ attempts = <<1, 2>>
    /\ requests = <<1, 2>>
    /\ failed = <<1, 2>>
    /\ ~aiInsight.analyzed

\* some condition of the rule is malformed
HasMalformed(rule) ==
    \E k \in 1..Len(rule.conditions) : Malformed(rule.conditions[k])

\* the rule with one well-formed condition that no request satisfies
NeverMatching(rule) ==
    [rule EXCEPT !.conditions =
        << Condition("request.type", "eq", <<Str("no such type")>>) >>]

\* the rule list with every malformed rule made a plain non-matching rule
Defused(ruleList) ==
    [k \in 1..Len(ruleList) |->
        IF HasMalformed(ruleList[k]) THEN NeverMatching(ruleList[k])
        ELSE ruleList[k]]

\* rule id and matched flag of every step of a path
Steps(path) == [k \in 1..Len(path) |-> <<path[k].ruleId, path[k].matched>>]

\* C24: evaluate returns for every rule set, malformed conditions included;
\* a rule with a malformed condition is a non-match, and the outcome, the
\* matched rule and every step of the path are those of the same rule set
\* with each malformed rule replaced by a plain non-matching rule.
C24_MalformedIsNonMatch ==
    /\ stage = "received" => ENABLED DecideEvaluate
    /\ stage = "evaluated"
          => LET other == evaluate(Defused(rules), input)
                 path == ruleResult.evaluationPath
             IN  /\ ruleResult.outcome = other.outcome
                 /\ ruleResult.matchedRule = other.matchedRule
                 /\ Steps(path) = Steps(other.evaluationPath)
                 /\ \A k \in 1..Len(path) :
                        HasMalformed(rules[StepRule(path[k])])
                            => ~path[k].matched

\* a rule with an unknown operator or a bad pattern was tried first, and the
\* rule behind it matched
C24_Witness ==
    /\ stage = "evaluated"
    /\ Len(ruleResult.evaluationPath) = 2
    /\ HasMalformed(rules[StepRule(ruleResult.evaluationPath[1])])
    /\ ruleResult.evaluationPath[1].reason = "malformed condition"
    /\ ruleResult.evaluationPath[2].matched
    /\ ruleResult.matchedRule # <<>>

\* C25: the handler answers every request, and once: a request that is not
\* answered yet can always move on, nothing is sent before decide returned
\* or rejected, and nothing can be sent after the answer; the status is 500
\* exactly when the decision sent has final ERROR (returned by decide or
\* written by the handler's catch) and 200 otherwise.
C25_AnsweredOnceWithStatus ==
    /\ stage \in {"received", "evaluated", "advising"} => ENABLED NextPipeline
    /\ stage = "returned" => ENABLED RouteRespond
    /\ stage = "rejected" => ENABLED RouteCatch
    /\ response # NoResponse <=> stage = "responded"
    /\ stage = "responded"
          => /\ ~ENABLED RouteRespond
             /\ ~ENABLED RouteCatch
             /\ response.status \in {200, 500}
             /\ response.status = 500
                   <=> response.body.decision.final = "ERROR"
             /\ response.body.decision.final = "ERROR" <=> fault # "none"

\* decide caught an exception of the rule engine and returned the ERROR
\* decision, which the handler sent as it was with status 500
C25_Witness ==
    /\ stage = "responded"
    /\ fault = "received"
    /\ result.decision.final = "ERROR"
    /\ response = [status |-> 500, body |-> result]

\* a confidence brought into [0, 1]
Clamped(v) == IF v < 0 THEN 0 ELSE IF v > 100 THEN 100 ELSE v

\* C26: for a GREY_ZONE outcome, analyze then combineDecision ends in ALLOW
\* or DENY only if a provider call succeeded, its reply decoded as an object
\* with that very recommendation and a numeric confidence, and that
\* confidence, clamped, is at or above the threshold (the analyzer's and the
\* configured one); with the advisor disabled, all providers failed, a reply
\* that is no JSON object, or a confidence below the threshold, it is REVIEW.
C26_GreyZoneVerdictNeedsConfidentReply ==
    (pc = "done" /\ ruleOutcome = "GREY_ZONE")
        => /\ decision.finalDecision \in {"ALLOW", "DENY", "REVIEW"}
           /\ decision.finalDecision \in {"ALLOW", "DENY"}
                 => /\ this.enabled
                    /\ lastText # <<>>
                    /\ requests # <<>>
                    /\ Len(attempts) = Len(failed) + 1
                    /\ lastText[1].json = "object"
                    /\ lastText[1].recommendation = <<decision.finalDecision>>
                    /\ lastText[1].confidence.type = "number"
                    /\ Clamped(lastText[1].confidence.val)
                           >= this.confidenceThreshold
                    /\ config.confidenceThreshold # <<>>
                          => Clamped(lastText[1].confidence.val)
                                 >= config.confidenceThreshold[1]
                    /\ decision.source = "AI_RECOMMENDED"
           /\ (\/ ~this.enabled
               \/ Len(failed) = Len(this.providers)
               \/ lastText # <<>> /\ lastText[1].json # "object"
               \/ /\ IsAnalyzed(aiInsight)
                  /\ \/ aiInsight.confidence[1] < this.confidenceThreshold
                     \/ /\ config.confidenceThreshold # <<>>
                        /\ aiInsight.confidence[1]
                               < config.confidenceThreshold[1])
                 => decision.finalDecision = "REVIEW"

\* a DENY with confidence 1.5, clamped to 1, just met a threshold of 1
C26_Witness ==
    /\ pc = "done"
    /\ ruleOutcome = "GREY_ZONE"
    /\ this.confidenceThreshold = 100
    /\ lastText # <<>>
    /\ lastText[1].recommendation = <<"DENY">>
    /\ lastText[1].confidence = [type |-> "number", val |-> 150]
    /\ decision.finalDecision = "DENY"

\* C27: whatever threshold in [0, 1] is configured (0 and none included),
\* a GREY_ZONE request whose first responding provider sends a reply that
\* gets the confidence-0 fallback ends in REVIEW / AI_UNCERTAIN: the
\* fallback insight has the threshold flag unset and is never passed on as
\* AI_RECOMMENDED.
C27_FallbackNeverRecommended ==
    (/\ pc = "done"
     /\ ruleOutcome = "GREY_ZONE"
     /\ lastText # <<>>
     /\ lastText[1].json \in {"notjson", "null"})
        => /\ aiInsight.confidence = <<0>>
           /\ ~aiInsight.meetsConfidenceThreshold
           /\ decision = Decision("REVIEW", "AI_UNCERTAIN", <<>>)

\* the threshold was configured as 0 and the reply was no JSON
C27_Witness ==
    /\ pc = "done"
    /\ ruleOutcome = "GREY_ZONE"
    /\ config.confidenceThreshold = <<0>>
    /\ lastText # <<>>
    /\ lastText[1].json = "notjson"
    /\ decision.source = "AI_UNCERTAIN"

\* C28: the decision combineDecision returns has a confidence exactly when
\* its source is AI_RECOMMENDED, and that confidence is the insight's; with
\* source RULE, RULE_ABSOLUTE, AI_FLAGGED_REVIEW, AI_UNAVAILABLE or
\* AI_UNCERTAIN it has none.
C28_ConfidenceOnlyWhenRecommended ==
    pc = "done"
        => /\ decision.confidence # <<>> <=> decision.source = "AI_RECOMMENDED"
           /\ decision.source = "AI_RECOMMENDED"
                 => /\ aiInsight.present
                    /\ decision.confidence = aiInsight.confidence
           /\ decision.source \in
                  {"RULE", "RULE_ABSOLUTE", "AI_FLAGGED_REVIEW",
                   "AI_UNAVAILABLE", "AI_UNCERTAIN"}
                 => decision.confidence = <<>>

\* a recommended REVIEW carries the insight's confidence, here 0.4
C28_Witness ==
    /\ pc = "done"
    /\ decision.source = "AI_RECOMMENDED"
    /\ aiInsight.recommendation = "REVIEW"
    /\ aiInsight.confidence = <<40>>
    /\ decision.confidence = <<40>>

\* C29: when the middleware runs while the service shuts down and the path
\* is not /health, it answers 503 and does not call next, and next is not
\* called for that request afterwards either; for /health, and whenever the
\* service is not shutting down, it calls next once, answers nothing and
\* leaves the request as it is.
C29_ShutdownGate ==
    [][/\ (mw = "arrived" /\ mw' # "arrived")
            => IF shuttingDown /\ reqPath # "/health"
               THEN mw' = "answered" /\ resStatus' = 503 /\ nextCalls' = 0
               ELSE /\ mw' = "passed"
                    /\ resStatus' = 0
                    /\ nextCalls' = 1
                    /\ reqPath' = reqPath
       /\ mw' = "answered" => (resStatus' = 503 /\ nextCalls' = 0)
       /\ mw' = "passed" => (resStatus' = 0 /\ nextCalls' = 1)]_vars

\* a path that only begins with /health was refused during shutdown
C29_Witness ==
    /\ mw = "answered"
    /\ reqPath = "/health/live"
    /\ resStatus = 503
    /\ nextCalls = 0
    /\ handled >= 1

\* C30: no request is ever posted for a list entry whose name is neither
\* gemini nor claude; the attempt for such an entry fails at once, is
\* counted as a failure, returns nothing, and the loop moves to the next
\* entry.
C30_UnknownProviderSkipped ==
    [][/\ \A k \in 1..Len(requests') :
              this.providers[requests'[k]].name \in {"gemini", "claude"}
       /\ (/\ pc = "loop"
           /\ attempts' # attempts
           /\ this.providers[idx].name \notin {"gemini", "claude"})
             => /\ attempts' = Append(attempts, idx)
                /\ requests' = requests
                /\ failed' = Append(failed, idx)
                /\ aiInsight' = aiInsight
                /\ pc' = "loop"
                /\ idx' = idx + 1]_vars

\* the first entry was an unknown provider, the second one answered
C30_Witness ==
    /\ pc = "returned"
    /\ IsAnalyzed(aiInsight)
    /\ this.providers[1].name = "openai"
    /\ attempts = <<1, 2>>
    /\ requests = <<2>>
    /\ failed = <<1>>
    /\ lastError = "Unknown provider"

====
